---- MODULE Spec2Model ----
(***************************************************************************)
(* Timing-attack analyzer (src/main.py): the orchestrator main, the source *)
(* instrumenter instrument_code with its TimingVisitor, and the execution   *)
(* harness run_analysis.                                                    *)
(*                                                                          *)
(* Representation.  A path is a sequence of one-character strings.  A       *)
(* syntax-tree node is a record [kind, name, args, body]; body is a         *)
(* sequence of nodes.  The text of a source file is represented by the      *)
(* sequence of top-level syntax chunks it holds (formatting is abstracted): *)
(* a parseable target is <<Module>>, the artifact is <<import time,         *)
(* Module>>, an empty file is <<>>.  The file system fs is a function from  *)
(* the paths that exist to their content.  The threshold is kept in         *)
(* hundredths (5 is 0.05, 100 is 1.0).                                       *)
(***************************************************************************)
EXTENDS Integers, Sequences, FiniteSets, TLC

VARIABLES args, fs, fs0, child_env, pc, instrumented_file, instrumented_tree,
          outfile_open, i, spawned, logged, fs_ops, exit_status

vars == <<args, fs, fs0, child_env, pc, instrumented_file, instrumented_tree,
          outfile_open, i, spawned, logged, fs_ops, exit_status>>

----------------------------------------------------------------------------
(* Bounds of the model. *)

\* Largest number of syntax nodes below the Module node of an enumerated tree.
MaxNodes == 4
\* Longest enumerated target path, in characters.
MaxPathLen == 4
\* Largest iteration count drawn for --iterations.
MaxIterations == 3

----------------------------------------------------------------------------
(* Syntax model *)

Leaf(kind, name, a) == [kind |-> kind, name |-> name, args |-> a, body |-> <<>>]

Return == Leaf("Return", "", <<>>)
Docstring == Leaf("Expr", "", <<"Constant", "doc">>)
SimpleStmts == {Return, Docstring}

FunctionDef(name, a, body) ==
    [kind |-> "FunctionDef", name |-> name, args |-> a, body |-> body]
ClassDef(name, body) ==
    [kind |-> "ClassDef", name |-> name, args |-> <<>>, body |-> body]
Module(body) ==
    [kind |-> "Module", name |-> "", args |-> <<>>, body |-> body]

FunctionNames == {"f", "g"}
ParameterLists == {<<>>, <<"a">>}

\* The statement sequences of exactly n nodes, and the statements of exactly
\* n nodes: a compound statement (def, class) has a non-empty body.
RECURSIVE Forest(_), StmtOfSize(_)
Forest(n) ==
    IF n = 0 THEN {<<>>}
    ELSE UNION { { <<t>> \o rest : t \in StmtOfSize(k), rest \in Forest(n - k) }
                 : k \in 1..n }
StmtOfSize(k) ==
    IF k = 1 THEN SimpleStmts
    ELSE { FunctionDef(nm, a, b) :
              nm \in FunctionNames, a \in ParameterLists, b \in Forest(k - 1) }
         \cup { ClassDef("C", b) : b \in Forest(k - 1) }

Trees == { Module(b) : b \in UNION { Forest(n) : n \in 0..MaxNodes } }

\* def add(a, b): return a + b
AddModule == Module(<<FunctionDef("add", <<"a", "b">>, <<Return>>)>>)
\* Text that is not valid Python.
InvalidSource == Leaf("Invalid", "", <<>>)
ImportTime == Leaf("Import", "time", <<>>)

----------------------------------------------------------------------------
(* TimingVisitor *)

\* list.insert(0, x)
insert(body, x) == <<x>> \o body

start_time_stmt == Leaf("Assign", "start_time", <<"Call", "time">>)
end_time_stmt == Leaf("Assign", "end_time", <<"Call", "time">>)
duration_stmt ==
    Leaf("Assign", "duration", <<"BinOp", "end_time", "Sub", "start_time">>)
print_statement(name) ==
    Leaf("Expr", "", <<"Call", "print.print", "Function ", name, " took: ", "duration">>)

\* visit_FunctionDef: the four statements are inserted at index 0, last one
\* first; the node is returned without generic_visit, so its body is not
\* traversed.  The variant inserts the emission last, which puts it first.
visit_FunctionDef_mut(node) ==
    [node EXCEPT !.body =
        insert(insert(insert(insert(node.body, start_time_stmt),
                             duration_stmt), end_time_stmt), print_statement(node.name))]
visit_FunctionDef(node) ==
    [node EXCEPT !.body =
        insert(insert(insert(insert(node.body, print_statement(node.name)),
                             duration_stmt), end_time_stmt), start_time_stmt)]

\* NodeTransformer.visit: dispatch on the node's class; a class without a
\* visit_ method gets generic_visit, which visits every child statement.
RECURSIVE visit(_)
visit(node) ==
    IF node.kind = "FunctionDef" THEN visit_FunctionDef(node)
    ELSE [node EXCEPT !.body = [k \in 1..Len(node.body) |-> visit(node.body[k])]]

----------------------------------------------------------------------------
(* Paths *)

Chars == {"a", "/", ".", "p", "y"}
RECURSIVE SeqsOfLen(_)
SeqsOfLen(n) ==
    IF n = 0 THEN {<<>>}
    ELSE { <<c>> \o s : c \in Chars, s \in SeqsOfLen(n - 1) }

MaxOf(S) == CHOOSE m \in S : \A k \in S : k <= m
\* str.rfind, 1-based: 0 when c does not occur.
rfind(p, c) ==
    LET S == { k \in 1..Len(p) : p[k] = c } IN IF S = {} THEN 0 ELSE MaxOf(S)

\* The paths that can name a regular file: the last component is not empty
\* (a trailing separator), "." or "..".
IsFilePath(p) ==
    SubSeq(p, rfind(p, "/") + 1, Len(p)) \notin {<<>>, <<".">>, <<".", ".">>}
Paths == { p \in UNION { SeqsOfLen(n) : n \in 1..MaxPathLen } : IsFilePath(p) }

\* os.path.splitext: the extension starts at the last dot of the last path
\* component, unless only dots precede it in that component.
splitext(p) ==
    LET sepIndex == rfind(p, "/")
        dotIndex == rfind(p, ".")
    IN  IF /\ dotIndex > sepIndex
           /\ \E k \in (sepIndex + 1)..(dotIndex - 1) : p[k] # "."
        THEN <<SubSeq(p, 1, dotIndex - 1), SubSeq(p, dotIndex, Len(p))>>
        ELSE <<p, <<>>>>

InstrumentedSuffix == <<"_", "i", "n", "s", "t", "r", "u", "m", "e", "n", "t", "e", "d">>
PyExt == <<".", "p", "y">>

\* f"{os.path.splitext(filename)[0]}_instrumented.py"; the variant keeps the
\* target's own extension.
instrumented_filename_mut(filename) ==
    splitext(filename)[1] \o InstrumentedSuffix \o splitext(filename)[2]
instrumented_filename(filename) ==
    splitext(filename)[1] \o InstrumentedSuffix \o PyExt

----------------------------------------------------------------------------
(* File system, command line and environment *)

None == <<>>

\* open(p, "w") followed by writes: p holds exactly c afterwards.
WriteFile(f, p, c) == [q \in DOMAIN f \cup {p} |-> IF q = p THEN c ELSE f[q]]
\* The file system holding exactly the <<path, content>> pairs of S.
FsOf(S) == [p \in { e[1] : e \in S } |-> (CHOOSE e \in S : e[1] = p)[2]]

FsOp(op, path) == [op |-> op, path |-> path]

DefaultTarget == <<"a", ".", "p", "y">>
OutputPath == <<"t", ".", "l", "o", "g">>
\* Content of a file left behind by an earlier invocation.
Stale == <<Leaf("Stale", "", <<>>)>>

\* --threshold values in hundredths: below range, the two ends, the default
\* 0.05, above range.
ThresholdValues == {0 - 1, 0, 5, 100, 101}

\* What the environment makes of a spawned child: it runs and exits 0, it
\* runs and exits non-zero, or the interpreter cannot be started.
ChildOutcomes == {"exit_zero", "exit_nonzero", "no_python"}

\* What the environment makes of writing the artifact.
WriteOutcomes == {"ok", "open_fail", "write_import_fail", "write_code_fail"}

\* Standard output of the k-th child process.
Stdout(k) == Leaf("Stdout", ToString(k), <<>>)

\* ast.parse accepts empty text and the text of a module.
Parseable(code) == code = <<>> \/ (Len(code) = 1 /\ code[1].kind = "Module")
parse(code) == IF code = <<>> THEN Module(<<>>) ELSE code[1]

Log(msg) == logged' = Append(logged, msg)

----------------------------------------------------------------------------
(* Initial states *)

InitCommon ==
    /\ fs0 = fs
    /\ instrumented_file = None
    /\ instrumented_tree = Leaf("None", "", <<>>)
    /\ outfile_open = FALSE
    /\ i = 0
    /\ spawned = 0
    /\ logged = <<>>
    /\ fs_ops = <<>>
    /\ exit_status = 0 - 1

\* A command line as setup_argparse accepts it, over a file system in which
\* the target, a stale artifact and a stale log each exist or not.
Init ==
    /\ args \in [target_file : {DefaultTarget},
                 iterations : (0 - 1)..MaxIterations,
                 threshold : ThresholdValues,
                 output : {OutputPath},
                 dependency_check : BOOLEAN]
    /\ \E src \in {{}, {<<AddModule>>}, {<<InvalidSource>>}},
          art \in SUBSET {<<instrumented_filename(DefaultTarget), Stale>>},
          out \in SUBSET {<<OutputPath, Stale>>} :
          fs = FsOf({ <<DefaultTarget, c>> : c \in src } \cup art \cup out)
    /\ child_env \in ChildOutcomes
    /\ pc = "validate_target"
    /\ InitCommon

\* instrument_code called on its own: any path with the example source, or
\* the default path with any tree; the artifact's path is free or taken.
InitInstr ==
    /\ \E filename \in Paths, code \in { <<t>> : t \in Trees } \cup {<<AddModule>>},
          present \in BOOLEAN, art \in BOOLEAN :
          /\ filename = DefaultTarget \/ code = <<AddModule>>
          /\ args = [target_file |-> filename, iterations |-> 1, threshold |-> 5,
                     output |-> OutputPath, dependency_check |-> FALSE]
          /\ fs = FsOf((IF present THEN {<<filename, code>>} ELSE {})
                       \cup (IF art THEN {<<instrumented_filename(filename), Stale>>}
                                    ELSE {}))
    /\ child_env = "exit_zero"
    /\ pc = "instrument"
    /\ InitCommon

----------------------------------------------------------------------------
(* main: input validation *)

Exit(status) == /\ exit_status' = status
                /\ pc' = "exit"

\* if not os.path.exists(args.target_file): error, sys.exit(1).  The variant
\* logs the error and goes on.
validate_target_mut ==
    /\ pc = "validate_target"
    /\ fs_ops' = Append(fs_ops, FsOp("exists", args.target_file))
    /\ IF args.target_file \notin DOMAIN fs
       THEN /\ Log("Target file not found")
            /\ pc' = "validate_iterations"
            /\ UNCHANGED exit_status
       ELSE /\ pc' = "validate_iterations"
            /\ UNCHANGED <<logged, exit_status>>
    /\ UNCHANGED <<args, fs, fs0, child_env, instrumented_file, instrumented_tree,
                   outfile_open, i, spawned>>
validate_target ==
    /\ pc = "validate_target"
    /\ fs_ops' = Append(fs_ops, FsOp("exists", args.target_file))
    /\ IF args.target_file \notin DOMAIN fs
       THEN /\ Log("Target file not found")
            /\ Exit(1)
       ELSE /\ pc' = "validate_iterations"
            /\ UNCHANGED <<logged, exit_status>>
    /\ UNCHANGED <<args, fs, fs0, child_env, instrumented_file, instrumented_tree,
                   outfile_open, i, spawned>>

\* if args.iterations <= 0; the variant lets 0 through.
iterations_invalid_mut(n) == n < 0
iterations_invalid(n) == n <= 0

\* if not 0 <= args.threshold <= 1
threshold_invalid(t) == ~(0 <= t /\ t <= 100)

validate_iterations ==
    /\ pc = "validate_iterations"
    /\ IF iterations_invalid(args.iterations)
       THEN /\ Log("Number of iterations must be greater than 0.")
            /\ Exit(1)
       ELSE /\ pc' = "validate_threshold"
            /\ UNCHANGED <<logged, exit_status>>
    /\ UNCHANGED <<args, fs, fs0, child_env, instrumented_file, instrumented_tree,
                   outfile_open, i, spawned, fs_ops>>

validate_threshold ==
    /\ pc = "validate_threshold"
    /\ IF threshold_invalid(args.threshold)
       THEN /\ Log("Threshold must be between 0 and 1.")
            /\ Exit(1)
       ELSE /\ pc' = "dependency_check"
            /\ UNCHANGED <<logged, exit_status>>
    /\ UNCHANGED <<args, fs, fs0, child_env, instrumented_file, instrumented_tree,
                   outfile_open, i, spawned, fs_ops>>

\* if args.dependency_check: if not check_dependencies(): sys.exit(1); then
\* the four "Starting ..." lines.  check_dependencies is the boolean signal
\* deps of an external collaborator.
dependency_check ==
    /\ pc = "dependency_check"
    /\ \E deps \in BOOLEAN :
          IF args.dependency_check /\ ~deps
          THEN /\ Log("Missing dependencies")
               /\ Exit(1)
          ELSE /\ Log("Starting timing attack analysis")
               /\ pc' = "instrument"
               /\ UNCHANGED exit_status
    /\ UNCHANGED <<args, fs, fs0, child_env, instrumented_file, instrumented_tree,
                   outfile_open, i, spawned, fs_ops>>

----------------------------------------------------------------------------
(* instrument_code *)

\* The whole of instrument_code(args.target_file).  rd is whether the read
\* fails for another reason than a missing file, wr how far the write gets.
\* A SyntaxError of ast.parse is caught nowhere: the interpreter prints the
\* traceback and the process ends with status 1.
instrument_code ==
    /\ pc = "instrument"
    /\ \E rd \in {"ok", "error"}, wr \in WriteOutcomes :
          LET filename == args.target_file
              read_op == Append(fs_ops, FsOp("open_r", filename))
          IN  IF filename \notin DOMAIN fs
              THEN /\ Log("File not found")
                   /\ fs_ops' = read_op
                   /\ instrumented_file' = None
                   /\ pc' = "instrumented"
                   /\ UNCHANGED <<fs, instrumented_tree, exit_status>>
              ELSE IF rd = "error"
              THEN /\ Log("Error reading file")
                   /\ fs_ops' = read_op
                   /\ instrumented_file' = None
                   /\ pc' = "instrumented"
                   /\ UNCHANGED <<fs, instrumented_tree, exit_status>>
              ELSE IF ~Parseable(fs[filename])
              THEN /\ Log("Traceback: SyntaxError")
                   /\ fs_ops' = read_op
                   /\ Exit(1)
                   /\ UNCHANGED <<fs, instrumented_tree, instrumented_file>>
              ELSE LET tree == visit(parse(fs[filename]))
                       name == instrumented_filename(filename)
                   IN  /\ instrumented_tree' = tree
                       /\ fs_ops' = Append(read_op, FsOp("open_w", name))
                       /\ pc' = "instrumented"
                       /\ UNCHANGED exit_status
                       /\ IF wr = "ok"
                          THEN /\ fs' = WriteFile(fs, name, <<ImportTime, tree>>)
                               /\ Log("Instrumented code written to")
                               /\ instrumented_file' = name
                          ELSE /\ fs' = IF wr = "open_fail" THEN fs
                                        ELSE IF wr = "write_import_fail"
                                        THEN WriteFile(fs, name, <<>>)
                                        ELSE WriteFile(fs, name, <<ImportTime>>)
                               /\ Log("Error writing instrumented code")
                               /\ instrumented_file' = None
    /\ UNCHANGED <<args, fs0, child_env, outfile_open, i, spawned>>

\* main: if not instrumented_file: error, sys.exit(1)
main_instrumented ==
    /\ pc = "instrumented"
    /\ IF instrumented_file = None
       THEN /\ Log("Failed to instrument code. Exiting.")
            /\ Exit(1)
       ELSE /\ pc' = "run_analysis"
            /\ UNCHANGED <<logged, exit_status>>
    /\ UNCHANGED <<args, fs, fs0, child_env, instrumented_file, instrumented_tree,
                   outfile_open, i, spawned, fs_ops>>

----------------------------------------------------------------------------
(* run_analysis *)

\* subprocess.run raises ValueError, before any process is created, when
\* capture_output is given together with stdout or stderr.
subprocess_run_raises(capture_output, stdout_given, stderr_given) ==
    capture_output /\ (stdout_given \/ stderr_given)

\* Where the handlers of an execution error leave the loop: they return.
\* The variant falls through to the next iteration.
after_execution_error_mut == "run_loop"
after_execution_error == "main_completed"

\* The existence check of the artifact and open(output_file, "w").
run_analysis_open ==
    /\ pc = "run_analysis"
    /\ \E op \in {"ok", "fail"} :
          LET checked == Append(fs_ops, FsOp("exists", instrumented_file))
          IN  IF instrumented_file \notin DOMAIN fs
              THEN /\ Log("Instrumented file not found")
                   /\ fs_ops' = checked
                   /\ pc' = "main_completed"
                   /\ UNCHANGED <<fs, outfile_open>>
              ELSE /\ fs_ops' = Append(checked, FsOp("open_w", args.output))
                   /\ IF op = "fail"
                      THEN /\ Log("Error writing to output file")
                           /\ pc' = "main_completed"
                           /\ UNCHANGED <<fs, outfile_open>>
                      ELSE /\ fs' = WriteFile(fs, args.output, <<>>)
                           /\ outfile_open' = TRUE
                           /\ pc' = "run_loop"
                           /\ UNCHANGED logged
    /\ i' = 0
    /\ UNCHANGED <<args, fs0, child_env, instrumented_file, instrumented_tree,
                   spawned, exit_status>>

\* One turn of "for i in range(iterations)": the subprocess.run call with
\* check=False, capture_output=True, stdout=outfile, stderr=PIPE and its
\* handlers; or, the range exhausted, the end of the with block and the
\* completion message.
run_analysis_iteration ==
    /\ pc = "run_loop"
    /\ IF i < args.iterations
       THEN /\ i' = i + 1
            /\ IF \/ subprocess_run_raises(TRUE, TRUE, TRUE)
                  \/ child_env = "no_python"
               THEN /\ logged' = logged \o <<"Running iteration",
                                             "Unexpected error during execution">>
                    /\ pc' = after_execution_error
                    /\ outfile_open' = (after_execution_error = "run_loop")
                    /\ UNCHANGED <<fs, spawned>>
               ELSE \* the child runs to its end; check=False ignores its status
                    /\ Log("Running iteration")
                    /\ spawned' = spawned + 1
                    /\ fs' = [fs EXCEPT ![args.output] = Append(@, Stdout(i + 1))]
                    /\ UNCHANGED <<pc, outfile_open>>
       ELSE /\ Log("Analysis completed.  Results written to")
            /\ outfile_open' = FALSE
            /\ pc' = "main_completed"
            /\ UNCHANGED <<fs, spawned, i>>
    /\ UNCHANGED <<args, fs0, child_env, instrumented_file, instrumented_tree,
                   fs_ops, exit_status>>

\* main: logging.info("Timing attack analysis completed."), then the
\* interpreter ends with status 0.
main_completed ==
    /\ pc = "main_completed"
    /\ Log("Timing attack analysis completed.")
    /\ Exit(0)
    /\ UNCHANGED <<args, fs, fs0, child_env, instrumented_file, instrumented_tree,
                   outfile_open, i, spawned, fs_ops>>

----------------------------------------------------------------------------
(* Specifications *)

Next ==
    \/ validate_target
    \/ validate_iterations
    \/ validate_threshold
    \/ dependency_check
    \/ instrument_code
    \/ main_instrumented
    \/ run_analysis_open
    \/ run_analysis_iteration
    \/ main_completed

Spec == Init /\ [][Next]_vars

\* instrument_code alone, on every enumerated path and tree.
NextInstr == instrument_code

SpecInstr == InitInstr /\ [][NextInstr]_vars

----------------------------------------------------------------------------
(* Properties *)

Logged(msg) == \E k \in 1..Len(logged) : logged[k] = msg

ExecutionError == "Unexpected error during execution"
AnalysisCompleted == "Analysis completed.  Results written to"

\* run_analysis got past its existence check and opened the output log.
HarnessStarted ==
    /\ \E k \in 1..Len(fs_ops) : fs_ops[k] = FsOp("open_w", args.output)
    /\ ~Logged("Error writing to output file")

\* C1: when the invocation has ended after run_analysis opened the log for
\* an existing artifact and N > 0, in an environment where every child starts
\* and exits 0, exactly N children were executed, the log holds the output of
\* runs 1..N in that order, and run_analysis reported completion.
C1_AllRunsCollected ==
    (pc = "exit" /\ HarnessStarted /\ child_env = "exit_zero")
        => /\ spawned = args.iterations
           /\ fs[args.output] = [k \in 1..args.iterations |-> Stdout(k)]
           /\ Logged(AnalysisCompleted)

Probe(name) ==
    << Leaf("Assign", "start_time", <<"Call", "time">>),
       Leaf("Assign", "end_time", <<"Call", "time">>),
       Leaf("Assign", "duration", <<"BinOp", "end_time", "Sub", "start_time">>),
       Leaf("Expr", "", <<"Call", "print.print", "Function ", name, " took: ",
                          "duration">>) >>

\* inst is orig with a probe at the head of every function definition,
\* at every depth.
RECURSIVE Probed(_, _)
Probed(orig, inst) ==
    LET off == IF orig.kind = "FunctionDef" THEN 4 ELSE 0
    IN  /\ inst.kind = orig.kind
        /\ inst.name = orig.name
        /\ Len(inst.body) = Len(orig.body) + off
        /\ off = 4 => SubSeq(inst.body, 1, 4) = Probe(orig.name)
        /\ \A k \in 1..Len(orig.body) : Probed(orig.body[k], inst.body[k + off])

InstrumentOk == pc = "instrumented" /\ instrumented_file # None
OriginalTree == parse(fs0[args.target_file])

\* C3: after a successful instrument_code every function definition of the
\* original tree (top-level, method, nested at any depth) has its probe in
\* the artifact.
C3_EveryFunctionProbed ==
    InstrumentOk => Probed(OriginalTree, fs[instrumented_file][2])

InstrumenterFailure ==
    \/ Logged("File not found")
    \/ Logged("Error reading file")
    \/ Logged("Traceback: SyntaxError")
    \/ Logged("Error writing instrumented code")
HarnessFailure ==
    \/ Logged("Instrumented file not found")
    \/ Logged("Error writing to output file")
    \/ Logged(ExecutionError)

\* C4: an invocation in which the instrumenter or the harness failed ends
\* with a non-zero status and without main's completion message.
C4_FailurePropagated ==
    (pc = "exit" /\ (InstrumenterFailure \/ HarnessFailure))
        => /\ exit_status # 0
           /\ ~Logged("Timing attack analysis completed.")

\* C5: when instrument_code has returned, either it returned the path and
\* the full artifact (import line, then the instrumented source) is there,
\* or it returned None and the derived path holds nothing this call wrote:
\* it is absent, or still holds what it held before the call.
C5_ArtifactAllOrNothing ==
    pc = "instrumented" =>
        LET name == instrumented_filename(args.target_file)
        IN  IF instrumented_file # None
            THEN /\ instrumented_file = name
                 /\ fs[name] = <<ImportTime, instrumented_tree>>
            ELSE name \in DOMAIN fs
                     => (name \in DOMAIN fs0 /\ fs[name] = fs0[name])

ConfigInvalid ==
    \/ args.iterations <= 0
    \/ args.threshold < 0
    \/ args.threshold > 100

\* C6 as stated: when main rejects the iteration count or the threshold, it
\* exits non-zero and no file-system access has been made so far, the
\* existence check included.
C6_NoFileSystemAccess ==
    (/\ pc = "exit"
     /\ \/ Logged("Number of iterations must be greater than 0.")
        \/ Logged("Threshold must be between 0 and 1."))
        => (exit_status # 0 /\ fs_ops = <<>>)

\* C6 amended: with an invalid configuration the only file-system access
\* ever made is the existence check of the target; nothing is read, written
\* or opened, the file system stays as it was, and the exit status is 1.
C6_OnlyExistenceCheck ==
    ConfigInvalid
        => /\ fs_ops \in {<<>>, <<FsOp("exists", args.target_file)>>}
           /\ fs = fs0
           /\ pc = "exit" => exit_status = 1

C6_Witness ==
    /\ pc = "exit"
    /\ args.target_file \in DOMAIN fs
    /\ args.iterations >= 1
    /\ args.threshold > 100
    /\ Logged("Threshold must be between 0 and 1.")
    /\ fs_ops = <<FsOp("exists", args.target_file)>>

\* C7: with the target file missing, whatever the other arguments, the
\* invocation ends at the existence check with status 1 and the not-found
\* message, and the file system (artifact, log) is never touched.
C7_MissingTarget ==
    args.target_file \notin DOMAIN fs0
        => /\ fs = fs0
           /\ pc \in {"validate_target", "exit"}
           /\ pc = "exit" => (exit_status = 1 /\ logged = <<"Target file not found">>)

C7_Witness ==
    /\ pc = "exit"
    /\ args.target_file \notin DOMAIN fs0
    /\ args.iterations >= 1
    /\ args.threshold = 5
    /\ instrumented_filename(args.target_file) \in DOMAIN fs
    /\ args.output \in DOMAIN fs
    /\ exit_status = 1

\* The place where the extension of p starts: the last dot of p that has,
\* before it and in the same path component, a character that is no dot;
\* Len(p) + 1 when there is none.  Stated without rfind.
IsExtDot(p, k) ==
    /\ p[k] = "."
    /\ \A m \in (k + 1)..Len(p) : p[m] \notin {".", "/"}
    /\ \E j \in 1..(k - 1) :
          /\ p[j] \notin {".", "/"}
          /\ \A m \in j..(k - 1) : p[m] # "/"
ExtStart(p) ==
    IF \E k \in 1..Len(p) : IsExtDot(p, k)
    THEN CHOOSE k \in 1..Len(p) : IsExtDot(p, k)
    ELSE Len(p) + 1
BaseOf(p) == SubSeq(p, 1, ExtStart(p) - 1)
ExtOf(p) == SubSeq(p, ExtStart(p), Len(p))

\* C8 as stated: the path returned and written is base + "_instrumented" +
\* the original extension.
C8_KeepsExtension ==
    InstrumentOk =>
        LET name == BaseOf(args.target_file) \o InstrumentedSuffix
                        \o ExtOf(args.target_file)
        IN  /\ instrumented_file = name
            /\ name \in DOMAIN fs
            /\ fs[name] = <<ImportTime, instrumented_tree>>

\* C8 amended: the path returned and written is base + "_instrumented.py"
\* whatever the original extension, and what the file held before is
\* replaced by the artifact.
C8_AlwaysPyExtension ==
    InstrumentOk =>
        LET name == BaseOf(args.target_file) \o InstrumentedSuffix \o PyExt
        IN  /\ instrumented_file = name
            /\ name \in DOMAIN fs
            /\ fs[name] = <<ImportTime, instrumented_tree>>

C8_Witness ==
    /\ InstrumentOk
    /\ ExtOf(args.target_file) = <<".", "p">>
    /\ BaseOf(args.target_file) = <<"/", "a">>
    /\ instrumented_file \in DOMAIN fs0
    /\ fs0[instrumented_file] = Stale
    /\ fs[instrumented_file] # Stale

\* inst is orig with every function definition that is reached through
\* modules and classes only given the four statements, in order, ahead of its
\* own statements, which are kept as they were; nothing else differs.
RECURSIVE ProbeShape(_, _)
ProbeShape(orig, inst) ==
    IF orig.kind = "FunctionDef"
    THEN /\ inst.kind = "FunctionDef"
         /\ inst.name = orig.name
         /\ inst.args = orig.args
         /\ Len(inst.body) = 4 + Len(orig.body)
         /\ inst.body[1] = Leaf("Assign", "start_time", <<"Call", "time">>)
         /\ inst.body[2] = Leaf("Assign", "end_time", <<"Call", "time">>)
         /\ inst.body[3] = Leaf("Assign", "duration",
                                <<"BinOp", "end_time", "Sub", "start_time">>)
         /\ inst.body[4] = Leaf("Expr", "", <<"Call", "print.print", "Function ",
                                             orig.name, " took: ", "duration">>)
         /\ \A k \in 1..Len(orig.body) : inst.body[4 + k] = orig.body[k]
    ELSE /\ inst.kind = orig.kind
         /\ inst.name = orig.name
         /\ inst.args = orig.args
         /\ Len(inst.body) = Len(orig.body)
         /\ \A k \in 1..Len(orig.body) : ProbeShape(orig.body[k], inst.body[k])

====
